---- MODULE Spec2Model ----
(***************************************************************************)
(* what3words Go wrapper: the three local three-word-address matchers of   *)
(* the Service (FindPossible3wa, IsPossible3wa, DidYouMean), which apply   *)
(* the package's three compiled regular expressions to an input string.    *)
(*                                                                         *)
(* A Go string is modelled as the sequence of its Unicode code points      *)
(* (the regexp package matches rune by rune), a character class as the set *)
(* of code points written between its brackets, and a regular expression   *)
(* as the sequence of its nodes, read off the pattern text left to right.  *)
(*                                                                         *)
(* IsValid3wa and the endpoint methods go through core.MakeGetRequest in   *)
(* two steps: the request is built from the API's client, base URL and     *)
(* headers, appended to requests and handed to client.Do, where the call   *)
(* waits in pending; when client.Do returns, what the HTTP client and the  *)
(* remote service answered is kept in outcome and the method returns.      *)
(* Setters and the local matchers may run while a call waits.              *)
(*                                                                         *)
(* The three compiled patterns are package variables, shared by every      *)
(* goroutine: compiled holds them, and goroutines holds the goroutines     *)
(* that call the matchers on the text at the same time.                    *)
(***************************************************************************)
EXTENDS Integers, Sequences, FiniteSets, TLC

VARIABLES
    input,      \* the text the caller holds
    call,       \* the method being returned from, "none" between calls
    ret,        \* the value it returns
    requests,   \* the requests handed to the HTTP client, oldest first
    outcome,    \* what the client and the service answered to the last one
    compiled,   \* the package variables holding the compiled patterns
    goroutines, \* the goroutines calling the matchers concurrently
    api,        \* the API value the Service holds: base URL, headers, client
    config,     \* the options and setters applied to it so far, oldest first
    pending     \* the call that waits in client.Do for the answer, if any

vars == <<input, call, ret, requests, outcome, compiled, goroutines, api, config, pending>>

(***************************************************************************)
(* Bounds of the checked input space.                                      *)
(***************************************************************************)
\* longest text enumerated character by character
MaxLen == 5
\* largest number of leading slashes put in front of a shaped input
MaxSlashes == 3
\* largest number of additional sub-tokens in one word position
MaxSub == 4
\* longest run of separator characters put between two words
MaxRun == 3
\* largest number of requests one behaviour sends
MaxRequests == 2
\* number of goroutines calling the matchers at the same time
NumGoroutines == 2
\* largest number of options, setters and requests of one behaviour
MaxSteps == 3

(***************************************************************************)
(* Character classes of src/w3w.go:13-15, as sets of code points.          *)
(***************************************************************************)
\* \s of Go's regexp syntax (RE2): [\t\n\f\r ] and nothing else
PerlSpace == {9, 10, 12, 13, 32}

\* what the word class shares in all its occurrences:
\* 0-9 ~!@#$%^&*()+\-_=\[\{\]}\\|'<>.,?/;: and the five symbols, then \s
ExcludedCommon ==
    (48..57) \cup
    {126, 33, 64, 35, 36, 37, 94, 38, 42, 40, 41, 43, 45, 95, 61,
     91, 123, 93, 125, 92, 124, 39, 60, 62, 46, 44, 63, 47, 59, 58,
     163, 167, 186, 169, 174} \cup PerlSpace

\* [^0-9\x60~!...\s]: \x60 is the backtick
WordExcluded == ExcludedCommon \cup {96}

\* third class of regexFind3wa, [^0-9x60~!...\s]: the letter x, 6 and 0
WordExcludedThird == ExcludedCommon \cup {120, 54, 48}

\* [.｡。･・︒។։။۔።।]
Separator ==
    {46, 65377, 12290, 65381, 12539, 65042, 6100, 1417, 4171, 1748, 4962, 2404}

\* the loose class written as the strict one
LooseSeparatorStrict == Separator

\* [.\x{FF61}\x{3002}\x{FF65}\x{30FB}\x{FE12}\x{17D4}\x{0964}\x{1362}\x{3002}
\*  :။^_۔։ ,\\/+'&\\:;|\x{3000}-]
LooseSeparator ==
    {46, 65377, 12290, 65381, 12539, 65042, 6100, 2404, 4962, 12290,
     58, 4171, 94, 95, 1748, 1417, 32, 44, 92, 47, 43, 39, 38, 92, 58, 59,
     124, 12288, 45}

\* [\x{0020}\x{00A0}]
SubTokenJoiner == {32, 160}

\* the literal /
Slash == {47}

(***************************************************************************)
(* Regular expression nodes.  max = -1 is "no upper limit" ({1,}, +, * ).  *)
(***************************************************************************)
Not(set, min, max) == [kind |-> "cls", neg |-> TRUE, set |-> set, min |-> min, max |-> max]
In(set, min, max) == [kind |-> "cls", neg |-> FALSE, set |-> set, min |-> min, max |-> max]
Group(body, min, max) == [kind |-> "grp", body |-> body, min |-> min, max |-> max]
Alt(branches) == [kind |-> "alt", branches |-> branches]

\* [^...]{1,}
Word == Not(WordExcluded, 1, -1)
\* third position of regexFind3wa
WordThird == Not(WordExcludedThird, 1, -1)
\* the strict separator position taking any loose separator
SepLoose == In(LooseSeparator, 1, 1)

\* [.｡。...] once
Sep == In(Separator, 1, 1)
\* [loose]{1,2}
LooseSep == In(LooseSeparator, 1, 2)
\* ([\x{0020}\x{00A0}][^...]+){1,3}
SubTokens == Group(<<In(SubTokenJoiner, 1, 1), Not(WordExcluded, 1, -1)>>, 1, 3)

\* the scan with a third word that may be empty
regexFind3waTwoWords == <<Word, Sep, Word, Sep, Not(WordExcludedThird, 0, -1)>>

\* src/w3w.go:13, not anchored
regexFind3wa == <<Word, Sep, Word, Sep, WordThird>>

\* the full match with a third word that may be empty
regexIsPossible3waOpenEnd ==
    <<In(Slash, 0, -1),
      Alt(<< <<Word, Sep, Word, Sep, Not(WordExcluded, 0, -1)>>,
             <<Word, SubTokens, Sep, Word, SubTokens, Sep, Word, SubTokens>> >>)>>

\* the full match with /? in place of /*
regexIsPossible3waOneSlash ==
    <<In(Slash, 0, 1),
      Alt(<< <<Word, Sep, Word, Sep, Word>>,
             <<Word, SubTokens, Sep, Word, SubTokens, Sep, Word, SubTokens>> >>)>>

\* src/w3w.go:14, between ^ and $
regexIsPossible3wa ==
    <<In(Slash, 0, -1),
      Alt(<< <<Word, Sep, Word, Sep, Word>>,
             <<Word, SubTokens, Sep, Word, SubTokens, Sep, Word, SubTokens>> >>)>>

\* the near match without its optional leading slash
regexDidYouMeanNoSlash == <<Word, LooseSep, Word, LooseSep, Word>>

\* the near match with * and {0,2} in place of {1,} and {1,2}
regexDidYouMeanStar ==
    <<In(Slash, 0, 1), Not(WordExcluded, 0, -1), In(LooseSeparator, 0, 2),
      Not(WordExcluded, 0, -1), In(LooseSeparator, 0, 2), Not(WordExcluded, 0, -1)>>

\* src/w3w.go:15, between ^ and $
regexDidYouMean == <<In(Slash, 0, 1), Word, LooseSep, Word, LooseSep, Word>>

(***************************************************************************)
(* Matching.  Positions are 1-based indices into the text; position        *)
(* Len(s)+1 is the end of the text.                                        *)
(***************************************************************************)
InClass(c, node) == IF node.neg THEN c \notin node.set ELSE c \in node.set

\* positions reached from the positions P by one character of the class
StepClass(s, P, node) ==
    {p + 1 : p \in {q \in P : q <= Len(s) /\ InClass(s[q], node)}}

RECURSIVE RunSeq(_, _, _)
RECURSIVE RunNode(_, _, _)
RECURSIVE Repeat(_, _, _, _)

\* positions reached from P by one pass over the body of a repeated node
Once(s, P, node) ==
    IF node.kind = "cls" THEN StepClass(s, P, node) ELSE RunSeq(s, P, node.body)

\* positions reached from P, k passes done, by min..max passes in all
Repeat(s, P, node, k) ==
    (IF k >= node.min THEN P ELSE {}) \cup
    (IF P = {} \/ (node.max # -1 /\ k >= node.max)
        THEN {}
        ELSE Repeat(s, Once(s, P, node), node, k + 1))

RunNode(s, P, node) ==
    IF node.kind = "alt"
        THEN UNION {RunSeq(s, P, node.branches[i]) : i \in DOMAIN node.branches}
        ELSE Repeat(s, P, node, 0)

\* positions at which a match of the node sequence, begun in P, can end
RunSeq(s, P, seq) ==
    IF seq = <<>> THEN P ELSE RunSeq(s, RunNode(s, P, Head(seq)), Tail(seq))

\* regexp.MatchString for a pattern written ^...$ : the whole text matches
MatchString(re, s) == (Len(s) + 1) \in RunSeq(s, {1}, re)

\* The match a backtracking search finds first (Go: leftmost-first), for a
\* sequence of greedy character-class nodes: the position after the match
\* begun with n characters taken by node k and the text read up to p, or 0.
RECURSIVE Backtrack(_, _, _, _, _)
Backtrack(s, re, k, p, n) ==
    IF k > Len(re) THEN p
    ELSE LET node == re[k]
             more == IF (node.max = -1 \/ n < node.max)
                        /\ p <= Len(s) /\ InClass(s[p], node)
                     THEN Backtrack(s, re, k, p + 1, n + 1)
                     ELSE 0
         IN  IF more # 0 THEN more
             ELSE IF n >= node.min THEN Backtrack(s, re, k + 1, p, 0)
             ELSE 0

\* end of the first match that begins at position i, or 0
MatchAt(re, s, i) == Backtrack(s, re, 1, i, 0)

\* the scan resumed one character after the start of the previous match
RECURSIVE FindAllFromOverlapping(_, _, _)
FindAllFromOverlapping(re, s, i) ==
    IF i > Len(s) THEN <<>>
    ELSE LET e == MatchAt(re, s, i)
         IN  IF e = 0 THEN FindAllFromOverlapping(re, s, i + 1)
             ELSE <<SubSeq(s, i, e - 1)>> \o FindAllFromOverlapping(re, s, i + 1)

\* regexp.FindAllString(s, -1): successive leftmost matches, each search
\* beginning where the previous match ended (matches here are never empty)
RECURSIVE FindAllFrom(_, _, _)
FindAllFrom(re, s, i) ==
    IF i > Len(s) THEN <<>>
    ELSE LET e == MatchAt(re, s, i)
         IN  IF e = 0 THEN FindAllFrom(re, s, i + 1)
             ELSE <<SubSeq(s, i, e - 1)>> \o FindAllFrom(re, s, e)

FindAllString(re, s) == FindAllFrom(re, s, 1)

(***************************************************************************)
(* The three matchers of the Service, src/w3w.go:130-153.                  *)
(***************************************************************************)
FindPossible3wa(s) == FindAllString(regexFind3wa, s)

IsPossible3wa(s) == MatchString(regexIsPossible3wa, s)

DidYouMean(s) == MatchString(regexDidYouMean, s)

(***************************************************************************)
(* The input texts the matchers are applied to.                            *)
(***************************************************************************)
\* a letter, the letter x, the backtick, the ASCII period, the ideographic
\* full stop U+3002, the slash, the no-break space
Alphabet == {97, 120, 96, 46, 12290, 47, 160}

\* every text over Alphabet of at most MaxLen characters
ShortTexts == UNION {[1..n -> Alphabet] : n \in 0..MaxLen}

\* n slashes
Slashes(n) == [i \in 1..n |-> 47]

\* one word position: the word "a" followed by k sub-tokens "a", each
\* joined by the character j
RECURSIVE WordPosition(_, _)
WordPosition(k, j) == IF k = 0 THEN <<97>> ELSE WordPosition(k - 1, j) \o <<j, 97>>

\* three word positions with k1, k2, k3 additional sub-tokens
MultiText(n, k1, k2, k3, j1, j2, j3, sep) ==
    Slashes(n) \o WordPosition(k1, j1) \o <<sep>> \o WordPosition(k2, j2)
               \o <<sep>> \o WordPosition(k3, j3)

\* the multi-token texts, bare or after one slash (ShortTexts and LooseTexts
\* hold the texts with more slashes)
MultiTexts ==
    {MultiText(n, k[1], k[2], k[3], j[1], j[2], j[3], sep) :
        n \in 0..1,
        k \in (0..MaxSub) \X (0..MaxSub) \X (0..MaxSub),
        j \in SubTokenJoiner \X SubTokenJoiner \X SubTokenJoiner,
        sep \in {46, 12290}}

\* three one-letter words joined by the single characters l1 and l2
Joined(n, l1, l2) == Slashes(n) \o <<97, l1, 98, l2, 99>>

LooseTexts ==
    {Joined(n, l1, l2) : n \in 0..MaxSlashes, l1 \in LooseSeparator, l2 \in LooseSeparator}

\* the text of TestFindPossible3wa, src/unnamed/part_005:61:
\* "Can be found at filled.count.soap and at ///test.fake.words but not at
\*  test.fake. or test.fake"
TestSource ==
    <<67, 97, 110, 32, 98, 101, 32, 102, 111, 117, 110, 100, 32, 97, 116, 32,
      102, 105, 108, 108, 101, 100, 46, 99, 111, 117, 110, 116, 46, 115, 111,
      97, 112, 32, 97, 110, 100, 32, 97, 116, 32, 47, 47, 47, 116, 101, 115,
      116, 46, 102, 97, 107, 101, 46, 119, 111, 114, 100, 115, 32, 98, 117,
      116, 32, 110, 111, 116, 32, 97, 116, 32, 116, 101, 115, 116, 46, 102,
      97, 107, 101, 46, 32, 111, 114, 32, 116, 101, 115, 116, 46, 102, 97,
      107, 101>>

\* "filled.count.soap"
FilledCountSoap ==
    <<102, 105, 108, 108, 101, 100, 46, 99, 111, 117, 110, 116, 46, 115, 111, 97, 112>>

\* "test.fake.words"
TestFakeWords ==
    <<116, 101, 115, 116, 46, 102, 97, 107, 101, 46, 119, 111, 114, 100, 115>>

\* "filled.count."
FilledCountDot == SubSeq(FilledCountSoap, 1, 13)

\* "filled.count.soap.extra"
FilledCountSoapExtra == FilledCountSoap \o <<46, 101, 120, 116, 114, 97>>

\* "filled-count-fake", README "Did you Mean"
FilledCountFakeHyphens ==
    <<102, 105, 108, 108, 101, 100, 45, 99, 111, 117, 110, 116, 45, 102, 97, 107, 101>>

\* "new york.some place.here"
NewYorkSomePlaceHere ==
    <<110, 101, 119, 32, 121, 111, 114, 107, 46, 115, 111, 109, 101, 32, 112,
      108, 97, 99, 101, 46, 104, 101, 114, 101>>

\* the hyphen, the ASCII period and the ideographic space U+3000
RunAlphabet == {45, 46, 12288}

\* every run of 1..MaxRun characters of RunAlphabet
Runs == UNION {[1..n -> RunAlphabet] : n \in 1..MaxRun}

\* three one-letter words joined by runs of separator characters, at least
\* one of the two runs of one or two characters
RunTexts ==
    {<<97>> \o p[1] \o <<98>> \o p[2] \o <<99>> :
        p \in {q \in Runs \X Runs : Len(q[1]) <= 2 \/ Len(q[2]) <= 2}}

Examples ==
    {TestSource, FilledCountSoap, <<47>> \o FilledCountSoap, FilledCountDot,
     FilledCountSoapExtra, FilledCountFakeHyphens, NewYorkSomePlaceHere}

Inputs == ShortTexts \cup MultiTexts \cup LooseTexts \cup RunTexts \cup Examples

(***************************************************************************)
(* The remote call: core.MakeGetRequest and the AutoSuggest endpoint.      *)
(***************************************************************************)
\* a nil pointer
NilPtr == [nil |-> TRUE]

\* the nil error interface value
NilError == [type |-> "nil"]

\* a body json.Unmarshal fails on
Undecodable == [json |-> "invalid"]

\* no request sent, so nothing answered
NoOutcome == [kind |-> "none"]

\* how a call of a method that may panic ends
Returned(v) == [panic |-> FALSE, value |-> v]

Panicked == [panic |-> TRUE]

\* t.Fatalf: the test is failed and its goroutine stopped
Fatal == [fatal |-> TRUE]

\* "test.fake.words" for the input "filled.count.soap", "filled.count.soap"
\* for any other input: an address that is not the input
OtherWords(s) == IF s = FilledCountSoap THEN TestFakeWords ELSE FilledCountSoap

\* the error object of a response body
ErrorObjects == {[Code |-> "BadWords", Message |-> "words not found"]}

\* the bodies the service may answer a request about the text s with: one
\* that does not decode, or a JSON object with or without an "error" object
\* and with a list of suggestions, each with its words
Bodies(s) ==
    {Undecodable} \cup
    [json : {"object"},
     Error : {NilPtr} \cup ErrorObjects,
     Suggestions : {<<>>, <<[Words |-> s]>>, <<[Words |-> OtherWords(s)]>>,
                    <<[Words |-> OtherWords(s)], [Words |-> s]>>}]

\* the status codes answered
StatusCodes == {200, 400, 500}

\* what client.Do and the reading of the body can give: an error of the
\* transport (cancelled context included), a body that cannot be read, or a
\* response with its status and body
Outcomes(s) ==
    {[kind |-> "do error"], [kind |-> "read error"]} \cup
    [kind : {"response"}, status : StatusCodes, body : Bodies(s)]

\* GetError of autoSuggestResponse, src/pkg/apis/v3/types.go:228-230: the
\* *ErrorResponse field returned as an error, which is a non-nil interface
\* value whether the pointer is nil or not
GetError(response) == [type |-> "*ErrorResponse", ptr |-> response.Error]

\* core.MakeGetRequest, src/pkg/core/utils.go:27-62: the error returned and
\* the response structure as json.Unmarshal left it, for a base URL that
\* url.Parse rejects ("parse error", nothing sent) and for what client.Do
\* and the reading of the body give
MakeGetRequest(o) ==
    IF o.kind = "parse error" THEN [err |-> [type |-> "url"], response |-> NilPtr]
    ELSE IF o.kind = "do error" THEN [err |-> [type |-> "transport"], response |-> NilPtr]
    ELSE IF o.kind = "read error" THEN [err |-> [type |-> "read"], response |-> NilPtr]
    ELSE IF o.body = Undecodable THEN [err |-> [type |-> "json"], response |-> NilPtr]
    ELSE IF o.status # 200 THEN [err |-> GetError(o.body), response |-> o.body]
    ELSE [err |-> NilError, response |-> o.body]

\* strconv.Itoa
Itoa(n) == ToString(n)

\* AutoSuggestOpts.asOptionsMap, src/pkg/apis/v3/types.go:155-192, for
\* options that set at most NResults
AutoSuggestOptsMap(opts) ==
    IF opts.NResults # NilPtr THEN [k \in {"n-results"} |-> Itoa(opts.NResults.value)]
    ELSE [k \in {} |-> ""]

\* the query parameters of AutoSuggest, src/pkg/apis/v3/api.go:245-250:
\* "input" first, then the options copied over it
AutoSuggestQuery(s, opts) ==
    IF opts = NilPtr THEN [k \in {"input"} |-> s]
    ELSE AutoSuggestOptsMap(opts) @@ [k \in {"input"} |-> s]

\* the endpoint path each method passes to MakeGetRequest:
\* "convert-to-3wa", "convert-to-coordinates", "grid-section",
\* "autosuggest" and "available-languages"
EndpointPath(m) ==
    IF m \in {"ConvertTo3wa", "ConvertTo3waGeoJson"}
        THEN <<99, 111, 110, 118, 101, 114, 116, 45, 116, 111, 45, 51, 119, 97>>
    ELSE IF m \in {"ConvertToCoordinates", "ConvertToCoordinatesGeoJson"}
        THEN <<99, 111, 110, 118, 101, 114, 116, 45, 116, 111, 45, 99,
              111, 111, 114, 100, 105, 110, 97, 116, 101, 115>>
    ELSE IF m \in {"GridSection", "GridSectionGeoJson"}
        THEN <<103, 114, 105, 100, 45, 115, 101, 99, 116, 105, 111, 110>>
    ELSE IF m = "AutoSuggest"
        THEN <<97, 117, 116, 111, 115, 117, 103, 103, 101, 115, 116>>
    ELSE <<97, 118, 97, 105, 108, 97, 98, 108, 101, 45, 108, 97,
          110, 103, 117, 97, 103, 101, 115>>

\* the request AutoSuggest hands to the client
AutoSuggestRequest(s, opts) ==
    [method |-> "GET", path |-> EndpointPath("AutoSuggest"), query |-> AutoSuggestQuery(s, opts)]

\* api.AutoSuggest, src/pkg/apis/v3/api.go:243-264: response and error
AutoSuggest(s, opts, o) ==
    LET r == MakeGetRequest(o)
    IN  IF r.err # NilError THEN [resp |-> NilPtr, err |-> r.err]
        ELSE [resp |-> [Suggestions |-> r.response.Suggestions], err |-> NilError]

\* the options IsValid3wa passes: NResults is core.Int(1), a pointer to 1
IsValid3waOpts == [NResults |-> [nil |-> FALSE, value |-> 1]]

\* service.IsValid3wa, src/w3w.go:138-149: the boolean returned, or the
\* run-time panic of reading a field through a nil pointer
IsValid3wa(s, o) ==
    IF IsPossible3wa(s)
    THEN LET r == AutoSuggest(s, IsValid3waOpts, o)
         IN  IF r.err # NilError
             THEN IF r.resp = NilPtr THEN Panicked
                  ELSE IF Len(r.resp.Suggestions) >= 1
                       THEN Returned(r.resp.Suggestions[1].Words = s)
                       ELSE Returned(FALSE)
             ELSE Returned(FALSE)
    ELSE Returned(FALSE)

\* the requests IsValid3wa sends for the text s
IsValid3waRequestsAlways(s) == <<AutoSuggestRequest(s, IsValid3waOpts)>>

IsValid3waRequests(s) ==
    IF IsPossible3wa(s) THEN <<AutoSuggestRequest(s, IsValid3waOpts)>> ELSE <<>>

(***************************************************************************)
(* The API value of src/pkg/apis/v3/api.go: its base URL, its headers and  *)
(* its HTTP client, the options and setters that configure it, and the     *)
(* request an endpoint method builds from it.                              *)
(***************************************************************************)
\* core.HEADER_API_KEY, "x-api-key"
HEADER_API_KEY == <<120, 45, 97, 112, 105, 45, 107, 101, 121>>

\* core.HEADER_WRAPPER, "x-w3w-wrapper"
HEADER_WRAPPER == <<120, 45, 119, 51, 119, 45, 119, 114, 97, 112, 112, 101, 114>>

\* "x-temp-header", the custom header of setupSvc
XTempHeader == <<120, 45, 116, 101, 109, 112, 45, 104, 101, 97, 100, 101, 114>>

\* "X-API-KEY", the name of the key header in another case
XApiKeyUpper == <<88, 45, 65, 80, 73, 45, 75, 69, 89>>

\* version.ResolveWrapperHeader: "what3words-golang/" and the version
ResolveWrapperHeader == "what3words-golang/version"

\* the bytes of a header name net/textproto takes as valid, the token
\* characters of RFC 7230: letters, digits and ! # $ % & ' * + - . ^ _ ` | ~
TokenBytes ==
    (48..57) \cup (65..90) \cup (97..122)
        \cup {33, 35, 36, 37, 38, 39, 42, 43, 45, 46, 94, 95, 96, 124, 126}

\* textproto.CanonicalMIMEHeaderKey, applied by req.Header.Set: the first
\* letter and each letter after a hyphen in upper case, the others in lower
\* case; a name with an invalid byte is left as it is
CanonicalMIMEHeaderKey(k) ==
    IF \E i \in 1..Len(k) : k[i] \notin TokenBytes THEN k
    ELSE [i \in 1..Len(k) |->
            IF i = 1 \/ k[i - 1] = 45
            THEN (IF k[i] \in 97..122 THEN k[i] - 32 ELSE k[i])
            ELSE (IF k[i] \in 65..90 THEN k[i] + 32 ELSE k[i])]

\* a Go map[string]string: nil, or the entries it holds
NilMap == [isNil |-> TRUE, entries |-> <<>>]
MakeMap(f) == [isNil |-> FALSE, entries |-> f]

\* the map index assignment m[k] = v: a write to a nil map panics
MapSet(m, k, v) ==
    [isNil |-> FALSE, entries |-> [x \in {k} |-> v] @@ m.entries]

\* a base URL as the caller writes it: whether url.Parse accepts it, the
\* scheme and host, and the path as the sequence of its segments, each one
\* written after a slash ("" is <<>>, "/" is one empty segment, "/a/" is
\* the segment a and an empty one); texts are sequences of code points
\* "https://api.what3words.com"
BASE_URL ==
    [parses |-> TRUE,
     origin |-> <<104, 116, 116, 112, 115, 58, 47, 47, 97, 112, 105, 46, 119, 104, 97, 116, 51, 119, 111, 114, 100, 115, 46, 99, 111, 109>>,
     path |-> <<>>]

\* "http://localhost:8080"
LocalOrigin == <<104, 116, 116, 112, 58, 47, 47, 108, 111, 99, 97, 108, 104, 111, 115, 116, 58, 56, 48, 56, 48>>

\* the segment "v3"
V3Segment == <<118, 51>>

\* "http://localhost:8080", "http://localhost:8080/",
\* "http://localhost:8080/w3w/./", "http://localhost:80801" and a text
\* url.Parse rejects, "://localhost"
BaseURLs ==
    {[parses |-> TRUE, origin |-> LocalOrigin, path |-> <<>>],
     [parses |-> TRUE, origin |-> LocalOrigin, path |-> <<<<>>>>],
     [parses |-> TRUE, origin |-> LocalOrigin, path |-> <<<<119, 51, 119>>, <<46>>, <<>>>>],
     [parses |-> TRUE, origin |-> LocalOrigin \o <<49>>, path |-> <<>>],
     [parses |-> FALSE, origin |-> <<58, 47, 47, 108, 111, 99, 97, 108, 104, 111, 115, 116>>, path |-> <<>>]}

\* fmt.Sprintf("%s/v3", baseURL)
SprintfV3(u) == [u EXCEPT !.path = Append(u.path, V3Segment)]

\* path.Clean of a rooted path: empty and "." segments dropped, ".." drops
\* the segment before it
RECURSIVE Clean(_, _)
Clean(done, rest) ==
    IF rest = <<>> THEN done
    ELSE IF Head(rest) \in {<<>>, <<46>>} THEN Clean(done, Tail(rest))
    ELSE IF Head(rest) = <<46, 46>>
         THEN Clean(IF done = <<>> THEN done ELSE SubSeq(done, 1, Len(done) - 1), Tail(rest))
    ELSE Clean(Append(done, Head(rest)), Tail(rest))

\* the joining of a path that leaves the segments as they are
JoinPathRaw(u, p) == [u EXCEPT !.path = Append(u.path, p)]
\* URL.JoinPath(paths...) of src/pkg/core/utils.go:31, for one endpoint path
JoinPath(u, p) == [u EXCEPT !.path = Clean(<<>>, Append(u.path, p))]

\* http.DefaultClient; the clients of the caller are "MockAPI" and
\* "OtherClient"
DefaultClient == "http.DefaultClient"

\* the api struct, src/pkg/apis/v3/api.go:53-57
MakeAPI(baseURL, headers, client) ==
    [baseURL |-> baseURL, headers |-> headers, client |-> client]

\* api.SetBaseURL and the option WithCustomBaseURL
SetBaseURL(a, u) == [a EXCEPT !.baseURL = SprintfV3(u)]

\* api.SetHeader and the option WithCustomHeader: a.headers[k] = v
SetHeader(a, k, v) == [a EXCEPT !.headers = MapSet(a.headers, k, v)]

\* whether a.headers[k] = v panics: assignment to an entry of a nil map
SetHeaderPanics(a) == a.headers.isNil

\* api.SetHeaderMap: a.headers = headers
SetHeaderMap(a, m) == [a EXCEPT !.headers = m]

\* api.SetClient and the option WithClient
SetClient(a, c) == [a EXCEPT !.client = c]

\* v3.NewAPI(apiKey) before its options are applied
NewAPI(apiKey) ==
    MakeAPI(SprintfV3(BASE_URL),
            MakeMap([k \in {HEADER_API_KEY, HEADER_WRAPPER} |->
                        IF k = HEADER_API_KEY THEN apiKey ELSE ResolveWrapperHeader]),
            DefaultClient)

\* the header of the request after req.Header.Set(hk, hv) for every entry
\* of the map, in the order the range statement yields them, which Go leaves
\* unspecified: of two names with one canonical form either may come last
RequestHeaders(h) ==
    LET names == {CanonicalMIMEHeaderKey(k) : k \in DOMAIN h.entries}
    IN  {f \in [names -> {h.entries[k] : k \in DOMAIN h.entries}] :
            \A n \in names :
                \E k \in DOMAIN h.entries :
                    CanonicalMIMEHeaderKey(k) = n /\ h.entries[k] = f[n]}

\* req.Header.Get(k): the value under the canonical form of k, "" if none
HeaderGet(f, k) ==
    IF CanonicalMIMEHeaderKey(k) \in DOMAIN f THEN f[CanonicalMIMEHeaderKey(k)] ELSE ""

\* the base URL does not parse: MakeGetRequest returns before client.Do
ParseError == [kind |-> "parse error"]

\* the request MakeGetRequest hands to client.Do for the API value a, the
\* endpoint's path and query r and the header h
Sent(a, r, h) ==
    [method |-> r.method, path |-> r.path, query |-> r.query,
     client |-> a.client, url |-> JoinPath(a.baseURL, r.path), header |-> h]

(***************************************************************************)
(* The endpoint methods of src/pkg/apis/v3/api.go:123-318.                 *)
(***************************************************************************)
\* the members a decodable body holds: those of the json-shaped response of
\* the method ("json"), those of its geojson-shaped response ("geojson") or
\* none of them ("neither", the body {} of MockAPI when it has no error)
APIBodies ==
    {Undecodable} \cup
    {[json |-> "object", Error |-> e, shape |-> b[1], Words |-> b[2],
      Suggestions |-> <<>>, Languages |-> <<>>] :
        e \in {NilPtr} \cup ErrorObjects,
        b \in {<<"neither", "">>, <<"json", "filled.count.soap">>,
               <<"json", "index.home.raft">>, <<"geojson", "filled.count.soap">>}}

\* what the network gives an endpoint method
APIOutcomes ==
    {[kind |-> "do error"], [kind |-> "read error"]} \cup
    [kind : {"response"}, status : StatusCodes, body : APIBodies]

\* MockAPI.Do, src/unnamed/part_005:25-40: status 200 and the body {}
MockOutcome ==
    [kind |-> "response", status |-> 200,
     body |-> [json |-> "object", Error |-> NilPtr, shape |-> "neither", Words |-> "",
               Suggestions |-> <<>>, Languages |-> <<>>]]

\* apiURL of src/unnamed/part_005:17-19, the base URL of the tests
apiURL == [parses |-> TRUE, origin |-> LocalOrigin, path |-> <<>>]

\* the text of a path: each segment after a slash
RECURSIVE PathText(_)
PathText(segments) ==
    IF segments = <<>> THEN <<>>
    ELSE <<47>> \o Head(segments) \o PathText(Tail(segments))

\* URL.String() up to the question mark of the query
URLString(u) == u.origin \o PathText(u.path)

\* strings.HasPrefix(s, prefix)
HasPrefix(s, prefix) ==
    /\ Len(prefix) <= Len(s)
    /\ SubSeq(s, 1, Len(prefix)) = prefix

\* the two tests of MockAPI.Do, src/unnamed/part_005:27-33: the text of
\* the request's address begins with apiURL, and the header x-temp-header
\* is "temp"; t.Fatalf stops the test otherwise. apiURL holds no question
\* mark, so the text up to the query decides the first test
MockAccepts(req) ==
    /\ HasPrefix(URLString(req.url), URLString(apiURL))
    /\ HeaderGet(req.header, XTempHeader) = "temp"

\* what client.Do of the client c gives, all being the outcomes of the
\* network: MockAPI answers 200 and {}, any other client as the network
ClientOutcomes(c, all) == IF c = "MockAPI" THEN {MockOutcome} ELSE all

\* json.Unmarshal into convertAPIResponse or gridSectionResponse,
\* src/pkg/apis/v3/types.go:72-76 and 278-282: an embedded pointer is
\* allocated when the body holds a member of its structure, and stays nil
\* otherwise
DecodeEmbedded(body) ==
    [Json |-> IF body.shape = "json"
              THEN [nil |-> FALSE, Words |-> body.Words] ELSE NilPtr,
     GeoJson |-> IF body.shape = "geojson"
                 THEN [nil |-> FALSE, Words |-> body.Words] ELSE NilPtr,
     Error |-> body.Error]

\* api.convertTo3wa, api.convertToCoordinates and api.gridSection after
\* their query is built: (nil, err) or the decoded structure
convertAPI(o) ==
    LET r == MakeGetRequest(o)
    IN  IF r.err # NilError THEN [resp |-> NilPtr, err |-> r.err]
        ELSE [resp |-> DecodeEmbedded(r.response), err |-> NilError]

\* ConvertTo3wa, ConvertToCoordinates, GridSection: resp.<Json response>
JsonOf(o) ==
    LET r == convertAPI(o)
    IN  IF r.err # NilError THEN [resp |-> NilPtr, err |-> r.err]
        ELSE [resp |-> r.resp.Json, err |-> NilError]

\* ConvertTo3waGeoJson, ConvertToCoordinatesGeoJson, GridSectionGeoJson:
\* resp.<GeoJson response>
GeoJsonOf(o) ==
    LET r == convertAPI(o)
    IN  IF r.err # NilError THEN [resp |-> NilPtr, err |-> r.err]
        ELSE [resp |-> r.resp.GeoJson, err |-> NilError]

\* api.AvailableLanguages, src/pkg/apis/v3/api.go:311-318
AvailableLanguages(o) ==
    LET r == MakeGetRequest(o)
    IN  IF r.err # NilError THEN [resp |-> NilPtr, err |-> r.err]
        ELSE [resp |-> [Languages |-> r.response.Languages], err |-> NilError]

\* the endpoint methods
Endpoints ==
    {"ConvertTo3wa", "ConvertTo3waGeoJson", "ConvertToCoordinates",
     "ConvertToCoordinatesGeoJson", "GridSection", "GridSectionGeoJson",
     "AutoSuggest", "AvailableLanguages"}

\* the format each method passes to its unexported helper
FormatOf(m) ==
    IF m \in {"ConvertTo3wa", "ConvertToCoordinates", "GridSection"} THEN "json"
    ELSE "geojson"

\* an options map that carries a format of its own with the language
ConvertOptsMapWithFormat(opts) ==
    [k \in {x \in {"locale", "language", "format"} :
                \/ x = "locale" /\ opts.Locale # ""
                \/ x \in {"language", "format"} /\ opts.Language # ""} |->
        IF k = "locale" THEN opts.Locale
        ELSE IF k = "language" THEN opts.Language ELSE "geojson"]
\* ConvertAPIOpts.asOptionsMap, src/pkg/apis/v3/types.go:27-36
ConvertOptsMap(opts) ==
    [k \in {x \in {"locale", "language"} :
                \/ x = "locale" /\ opts.Locale # ""
                \/ x = "language" /\ opts.Language # ""} |->
        IF k = "locale" THEN opts.Locale ELSE opts.Language]

\* the options a caller passes to the convert methods: nil or a structure
ConvertOpts ==
    {NilPtr, [Locale |-> "", Language |-> "mn"], [Locale |-> "mn_la", Language |-> "mn"]}

\* the query of convertTo3wa and convertToCoordinates: the subject and the
\* format first, then the options copied over them
ConvertQuery(subject, value, opts, format) ==
    LET base == [k \in {subject, "format"} |-> IF k = "format" THEN format ELSE value]
    IN  IF opts = NilPtr THEN base ELSE ConvertOptsMap(opts) @@ base

\* the decimal digits of the natural number n, at least w of them
RECURSIVE Digits(_, _)
Digits(n, w) ==
    IF n < 10 /\ w <= 1 THEN <<48 + n>>
    ELSE Append(Digits(n \div 10, w - 1), 48 + (n % 10))

\* fmt's %.6f for a number of millionths
FormatF6(m) ==
    LET a == IF m < 0 THEN 0 - m ELSE m
    IN  (IF m < 0 THEN <<45>> ELSE <<>>)
            \o Digits(a \div 1000000, 1) \o <<46>> \o Digits(a % 1000000, 6)

\* BoundingBox.asQueryParam, src/pkg/apis/v3/types.go:100-102
BoundingBoxQueryParam(bb) ==
    FormatF6(bb.SouthWest.Lat) \o <<44>> \o FormatF6(bb.SouthWest.Lng) \o <<44>>
        \o FormatF6(bb.NorthEast.Lat) \o <<44>> \o FormatF6(bb.NorthEast.Lng)

\* Coordinates.AsQueryParam: the query text of the coordinates c
AsQueryParam(c) == <<"AsQueryParam", c.Lat, c.Lng>>

\* coordinates and bounding boxes in millionths of a degree
SomeCoordinates == {[Lat |-> 51521251, Lng |-> -203586]}

SomeBoundingBoxes ==
    {[SouthWest |-> [Lat |-> 52207988, Lng |-> 116126],
      NorthEast |-> [Lat |-> 52208867, Lng |-> 117540]]}

\* the words ConvertToCoordinates is called on
SomeWords == {FilledCountSoap}

\* the path and query of the request of method m for the argument arg and
\* the options opts
EndpointRequest(m, arg, opts) ==
    [method |-> "GET",
     path |-> EndpointPath(m),
     query |-> IF m \in {"ConvertTo3wa", "ConvertTo3waGeoJson"}
                   THEN ConvertQuery("coordinates", AsQueryParam(arg), opts, FormatOf(m))
               ELSE IF m \in {"ConvertToCoordinates", "ConvertToCoordinatesGeoJson"}
                   THEN ConvertQuery("words", arg, opts, FormatOf(m))
               ELSE IF m \in {"GridSection", "GridSectionGeoJson"}
                   THEN [k \in {"bounding-box", "format"} |->
                            IF k = "format" THEN FormatOf(m) ELSE BoundingBoxQueryParam(arg)]
               ELSE IF m = "AutoSuggest" THEN AutoSuggestQuery(arg, opts)
               ELSE <<>>]

\* what method m returns for what the network gave
EndpointResult(m, arg, opts, o) ==
    IF m \in {"ConvertTo3wa", "ConvertToCoordinates", "GridSection"} THEN JsonOf(o)
    ELSE IF m = "AutoSuggest" THEN AutoSuggest(arg, opts, o)
    ELSE IF m = "AvailableLanguages" THEN AvailableLanguages(o)
    ELSE GeoJsonOf(o)

(***************************************************************************)
(* The state machine: a caller holds a text and calls the methods of the   *)
(* Service on it, one call after the other.                                *)
(***************************************************************************)
\* the package variables as regexp.MustCompile initialises them
Compiled ==
    [regexFind3wa |-> regexFind3wa,
     regexIsPossible3wa |-> regexIsPossible3wa,
     regexDidYouMean |-> regexDidYouMean]

Goroutines == 1..NumGoroutines

\* no call waits in client.Do
NoPending == [method |-> "none"]

\* the options of setupSvc, src/unnamed/part_005:42-50, in their order
SetupOptions ==
    <<[op |-> "SetClient", c |-> "MockAPI"],
      [op |-> "SetHeader", k |-> XTempHeader, v |-> "temp"],
      [op |-> "SetBaseURL", u |-> apiURL]>>

\* a goroutine that is in none of the matchers
IdleGoroutine == [pc |-> "idle", method |-> "none", ret |-> <<>>]

\* no call made yet, no request sent, the patterns compiled
Idle ==
    /\ call = "none"
    /\ ret = <<>>
    /\ requests = <<>>
    /\ outcome = NoOutcome
    /\ compiled = Compiled
    /\ goroutines = [g \in Goroutines |-> IdleGoroutine]
    /\ api = NewAPI("key")
    /\ config = <<>>
    /\ pending = NoPending

Init ==
    /\ input \in Inputs
    /\ Idle

CallFindPossible3wa ==
    /\ call = "none"
    /\ call' = "FindPossible3wa"
    /\ ret' = FindPossible3wa(input)
    /\ UNCHANGED <<input, requests, outcome, compiled, goroutines, api, config, pending>>

CallIsPossible3wa ==
    /\ call = "none"
    /\ call' = "IsPossible3wa"
    /\ ret' = IsPossible3wa(input)
    /\ UNCHANGED <<input, requests, outcome, compiled, goroutines, api, config, pending>>

CallDidYouMean ==
    /\ call = "none"
    /\ call' = "DidYouMean"
    /\ ret' = DidYouMean(input)
    /\ UNCHANGED <<input, requests, outcome, compiled, goroutines, api, config, pending>>

\* a request may still be sent
CanSend ==
    /\ Len(requests) < MaxRequests
    /\ Len(config) + Len(requests) < MaxSteps + Len(SetupOptions)

\* what the network may give the method m called on arg
OutcomesOf(m, arg) ==
    IF m \in {"AutoSuggest", "IsValid3wa"} THEN Outcomes(arg) ELSE APIOutcomes

\* svc.IsValid3wa(ctx, input): it returns at once when it sends no request
\* or the base URL does not parse, and waits in client.Do otherwise
CallIsValid3wa ==
    /\ call = "none"
    /\ pending = NoPending
    /\ CanSend
    /\ IF IsValid3waRequests(input) = <<>>
       THEN /\ call' = "IsValid3wa"
            /\ ret' = IsValid3wa(input, NoOutcome)
            /\ outcome' = NoOutcome
            /\ UNCHANGED <<requests, pending>>
       ELSE IF ~api.baseURL.parses
       THEN /\ call' = "IsValid3wa"
            /\ ret' = IsValid3wa(input, ParseError)
            /\ outcome' = ParseError
            /\ UNCHANGED <<requests, pending>>
       ELSE \E h \in RequestHeaders(api.headers) :
                LET sent == [i \in 1..Len(IsValid3waRequests(input)) |->
                                Sent(api, IsValid3waRequests(input)[i], h)]
                IN  /\ requests' = requests \o sent
                    /\ pending' = [method |-> "IsValid3wa", arg |-> input,
                                   opts |-> IsValid3waOpts, req |-> sent[Len(sent)]]
                    /\ UNCHANGED <<call, ret, outcome>>
    /\ UNCHANGED <<input, compiled, goroutines, api, config>>

\* the endpoint method m of svc.V3() called on arg with the options opts:
\* MakeGetRequest returns at once when the base URL does not parse, and
\* otherwise builds the request from the client, base URL and headers of
\* the API, hands it to client.Do and waits
CallEndpoint(m, arg, opts) ==
    /\ call = "none"
    /\ pending = NoPending
    /\ CanSend
    /\ IF ~api.baseURL.parses
       THEN /\ call' = m
            /\ ret' = EndpointResult(m, arg, opts, ParseError)
            /\ outcome' = ParseError
            /\ UNCHANGED <<requests, pending>>
       ELSE \E h \in RequestHeaders(api.headers) :
                LET sent == Sent(api, EndpointRequest(m, arg, opts), h)
                IN  /\ requests' = Append(requests, sent)
                    /\ pending' = [method |-> m, arg |-> arg, opts |-> opts, req |-> sent]
                    /\ UNCHANGED <<call, ret, outcome>>
    /\ UNCHANGED <<input, compiled, goroutines, api, config>>

\* what the waiting call returns for what its client gave
PendingResult(p, o) ==
    IF p.method = "IsValid3wa" THEN IsValid3wa(p.arg, o)
    ELSE EndpointResult(p.method, p.arg, p.opts, o)

\* client.Do of the waiting call returns, the body is read and decoded and
\* the method returns, src/pkg/core/utils.go:46-61; MockAPI.Do stops the
\* test with t.Fatalf on a request it does not accept, and the call never
\* returns
ClientDo ==
    /\ call = "none"
    /\ pending # NoPending
    /\ IF pending.req.client = "MockAPI" /\ ~MockAccepts(pending.req)
       THEN /\ call' = "MockAPI.Do"
            /\ ret' = Fatal
            /\ UNCHANGED <<outcome, pending>>
       ELSE \E o \in ClientOutcomes(pending.req.client,
                                     OutcomesOf(pending.method, pending.arg)) :
                /\ call' = pending.method
                /\ outcome' = o
                /\ ret' = PendingResult(pending, o)
                /\ pending' = NoPending
    /\ UNCHANGED <<input, requests, compiled, goroutines, api, config>>

\* svc.V3().AutoSuggest(ctx, input, opts)
CallAutoSuggest ==
    \E opts \in {NilPtr, IsValid3waOpts} : CallEndpoint("AutoSuggest", input, opts)

CallConvertTo3wa ==
    \E c \in SomeCoordinates, opts \in ConvertOpts : CallEndpoint("ConvertTo3wa", c, opts)

CallConvertTo3waGeoJson ==
    \E c \in SomeCoordinates, opts \in ConvertOpts :
        CallEndpoint("ConvertTo3waGeoJson", c, opts)

CallConvertToCoordinates ==
    \E w \in SomeWords, opts \in ConvertOpts : CallEndpoint("ConvertToCoordinates", w, opts)

CallConvertToCoordinatesGeoJson ==
    \E w \in SomeWords, opts \in ConvertOpts :
        CallEndpoint("ConvertToCoordinatesGeoJson", w, opts)

CallGridSection ==
    \E bb \in SomeBoundingBoxes : CallEndpoint("GridSection", bb, NilPtr)

CallGridSectionGeoJson ==
    \E bb \in SomeBoundingBoxes : CallEndpoint("GridSectionGeoJson", bb, NilPtr)

CallAvailableLanguages == CallEndpoint("AvailableLanguages", <<>>, NilPtr)

\* an option of NewService or a setter of svc.V3() may still be applied
CanConfigure ==
    /\ call = "none"
    /\ Len(config) + Len(requests) < MaxSteps + Len(SetupOptions)

\* WithCustomBaseURL(u) or SetBaseURL(u)
CallSetBaseURL ==
    /\ CanConfigure
    /\ \E u \in BaseURLs :
        /\ api' = SetBaseURL(api, u)
        /\ config' = Append(config, [op |-> "SetBaseURL", u |-> u])
    /\ UNCHANGED <<input, call, ret, requests, outcome, compiled, goroutines, pending>>

\* the names and values SetHeader is called with
HeaderPairs ==
    {<<XTempHeader, "temp">>, <<XTempHeader, "other">>,
     <<XApiKeyUpper, "other">>, <<HEADER_API_KEY, "other">>}

\* WithCustomHeader(k, v) or SetHeader(k, v): the assignment to an entry of
\* a nil map is a run-time panic
CallSetHeader ==
    /\ CanConfigure
    /\ \E kv \in HeaderPairs :
        /\ config' = Append(config, [op |-> "SetHeader", k |-> kv[1], v |-> kv[2]])
        /\ IF SetHeaderPanics(api)
           THEN /\ call' = "SetHeader"
                /\ ret' = Panicked
                /\ UNCHANGED api
           ELSE /\ api' = SetHeader(api, kv[1], kv[2])
                /\ UNCHANGED <<call, ret>>
    /\ UNCHANGED <<input, requests, outcome, compiled, goroutines, pending>>

\* SetHeaderMap(m) with a nil map, an empty one or one of one entry
CallSetHeaderMap ==
    /\ CanConfigure
    /\ \E m \in {NilMap, MakeMap(<<>>), MakeMap([k \in {XTempHeader} |-> "temp"])} :
        /\ api' = SetHeaderMap(api, m)
        /\ config' = Append(config, [op |-> "SetHeaderMap", m |-> m])
    /\ UNCHANGED <<input, call, ret, requests, outcome, compiled, goroutines, pending>>

\* WithClient(c) or SetClient(c)
CallSetClient ==
    /\ CanConfigure
    /\ \E c \in {"MockAPI", "OtherClient"} :
        /\ api' = SetClient(api, c)
        /\ config' = Append(config, [op |-> "SetClient", c |-> c])
    /\ UNCHANGED <<input, call, ret, requests, outcome, compiled, goroutines, pending>>

\* WithV3API(x): svc.v3api = x, for x the API of
\* v3.NewAPI("key2", v3.WithClient(c))
ApplyWithV3API ==
    /\ CanConfigure
    /\ \E x \in {SetClient(NewAPI("key2"), "OtherClient")} :
        /\ api' = x
        /\ config' = Append(config, [op |-> "WithV3API", x |-> x])
    /\ UNCHANGED <<input, call, ret, requests, outcome, compiled, goroutines, pending>>

\* the caller has taken the result and may call again; a panic and a
\* stopped test are not returned from
Return ==
    /\ call \notin {"none", "MockAPI.Do"}
    /\ call \in {"IsValid3wa", "SetHeader"} => ~ret.panic
    /\ call' = "none"
    /\ ret' = <<>>
    /\ outcome' = NoOutcome
    /\ UNCHANGED <<input, requests, compiled, goroutines, api, config, pending>>

Next == CallFindPossible3wa \/ CallIsPossible3wa \/ CallDidYouMean \/ Return

Spec == Init /\ [][Next]_vars

\* the texts the remote methods are called on
ServiceInputs ==
    Examples \cup {<<>>, TestFakeWords, <<47, 47>> \o TestFakeWords,
                    <<97, 46, 97, 46, 97>>, <<97, 45, 97, 45, 97>>}

InitService ==
    /\ input \in ServiceInputs
    /\ Idle

NextService ==
    \/ CallFindPossible3wa \/ CallIsPossible3wa \/ CallDidYouMean
    \/ CallIsValid3wa \/ CallAutoSuggest \/ ClientDo \/ Return

SpecService == InitService /\ [][NextService]_vars

\* the eight endpoint methods
CallAnyEndpoint ==
    \/ CallConvertTo3wa \/ CallConvertTo3waGeoJson
    \/ CallConvertToCoordinates \/ CallConvertToCoordinatesGeoJson
    \/ CallGridSection \/ CallGridSectionGeoJson
    \/ CallAutoSuggest \/ CallAvailableLanguages

\* the Service of NewService("key"), its endpoint methods called over the
\* network
InitEndpoints ==
    /\ input = FilledCountSoap
    /\ Idle

NextEndpoints == CallAnyEndpoint \/ ClientDo \/ Return

SpecEndpoints == InitEndpoints /\ [][NextEndpoints]_vars

\* the Service of setupSvc: NewService(apiKey, WithClient(MockAPI{t}),
\* WithCustomHeader("x-temp-header", "temp"), WithCustomBaseURL(apiURL));
\* further options and setters are applied to it and its endpoint methods
\* called
InitConfigured ==
    /\ input = FilledCountSoap
    /\ call = "none"
    /\ ret = <<>>
    /\ requests = <<>>
    /\ outcome = NoOutcome
    /\ compiled = Compiled
    /\ goroutines = [g \in Goroutines |-> IdleGoroutine]
    /\ api = SetBaseURL(SetHeader(SetClient(NewAPI("key"), "MockAPI"),
                                  XTempHeader, "temp"), apiURL)
    /\ config = SetupOptions
    /\ pending = NoPending

\* the endpoint methods the configured Service is asked for: one with
\* options, one with a bounding box, one with no argument
CallConfigured ==
    CallConvertTo3wa \/ CallGridSection \/ CallAvailableLanguages

NextConfigured ==
    \/ CallSetBaseURL \/ CallSetHeader \/ CallSetHeaderMap \/ CallSetClient
    \/ ApplyWithV3API \/ CallConfigured \/ ClientDo \/ Return

SpecConfigured == InitConfigured /\ [][NextConfigured]_vars

\* the three matchers
Matchers == {"FindPossible3wa", "IsPossible3wa", "DidYouMean"}

\* what the method of that name returns for the text s when the package
\* variables hold the patterns c
RunMatcher(c, method, s) ==
    IF method = "FindPossible3wa" THEN FindAllString(c.regexFind3wa, s)
    ELSE IF method = "IsPossible3wa" THEN MatchString(c.regexIsPossible3wa, s)
    ELSE MatchString(c.regexDidYouMean, s)

\* the package variables as a call of the method leaves them: the methods
\* assign to none of them
CompiledAfterWrite(c, method) ==
    IF method = "DidYouMean" THEN [c EXCEPT !.regexIsPossible3wa = c.regexDidYouMean]
    ELSE c

CompiledAfter(c, method) == c

\* goroutine g calls a matcher on the text
GoCall(g) ==
    /\ goroutines[g].pc = "idle"
    /\ \E m \in Matchers :
        goroutines' = [goroutines EXCEPT ![g] = [pc |-> "running", method |-> m, ret |-> <<>>]]
    /\ UNCHANGED <<input, call, ret, requests, outcome, compiled, api, config, pending>>

\* the matcher goroutine g is in matches the text against the pattern and
\* returns
GoReturn(g) ==
    /\ goroutines[g].pc = "running"
    /\ goroutines' = [goroutines EXCEPT ![g] =
            [pc |-> "returned", method |-> goroutines[g].method,
             ret |-> RunMatcher(compiled, goroutines[g].method, input)]]
    /\ compiled' = CompiledAfter(compiled, goroutines[g].method)
    /\ UNCHANGED <<input, call, ret, requests, outcome, api, config, pending>>

\* goroutine g has taken the result and may call again
GoAgain(g) ==
    /\ goroutines[g].pc = "returned"
    /\ goroutines' = [goroutines EXCEPT ![g] = IdleGoroutine]
    /\ UNCHANGED <<input, call, ret, requests, outcome, compiled, api, config, pending>>

\* the texts the goroutines call the matchers on
ConcurrentInputs ==
    Examples \cup {<<>>, <<97, 46, 97, 46, 97>>, <<97, 45, 97, 45, 97>>,
                    <<97, 46, 97, 46, 120>>}

InitConcurrent ==
    /\ input \in ConcurrentInputs
    /\ Idle

NextConcurrent == \E g \in Goroutines : GoCall(g) \/ GoReturn(g) \/ GoAgain(g)

SpecConcurrent == InitConcurrent /\ [][NextConcurrent]_vars

\* the endpoint methods the goroutines call, as TestThreadSafety calls
\* ConvertToCoordinates
ConcurrentMethods == {"ConvertToCoordinates", "ConvertTo3wa"}

\* what the network gives a goroutine: a transport error, or 200 and a
\* body without error object
ConcurrentOutcomes ==
    {o \in APIOutcomes :
        \/ o.kind = "do error"
        \/ /\ o.kind = "response"
           /\ o.status = 200
           /\ o.body # Undecodable
           /\ o.body.Error = NilPtr}

\* a query map shared by the goroutines: the one a goroutine that has built
\* its query and not yet sent it has written
QueryParamsShared(gs, g) ==
    gs[CHOOSE h \in Goroutines : gs[h].pc = "built"].queryParams
\* queryParams of src/pkg/apis/v3/api.go:168, a local variable of the call:
\* the map goroutine g has made
QueryParams(gs, g) == gs[g].queryParams

\* goroutine g calls an endpoint method, which fills its query map,
\* src/pkg/apis/v3/api.go:167-173
ApiBuild(g) ==
    /\ goroutines[g].pc = "idle"
    /\ \E m \in ConcurrentMethods, opts \in ConvertOpts :
        LET arg == IF m = "ConvertTo3wa"
                   THEN CHOOSE c \in SomeCoordinates : TRUE
                   ELSE CHOOSE w \in SomeWords : TRUE
        IN  goroutines' = [goroutines EXCEPT ![g] =
                [pc |-> "built", method |-> m, ret |-> <<>>, arg |-> arg, opts |-> opts,
                 queryParams |-> EndpointRequest(m, arg, opts).query]]
    /\ UNCHANGED <<input, call, ret, requests, outcome, compiled, api, config, pending>>

\* MakeGetRequest of goroutine g reads the client, base URL and headers of
\* the API and hands the request to client.Do; with a base URL that does
\* not parse it returns the error and the method returns (nil, err)
ApiSend(g) ==
    /\ goroutines[g].pc = "built"
    /\ IF ~api.baseURL.parses
       THEN goroutines' = [goroutines EXCEPT ![g] =
                [pc |-> "returned", method |-> goroutines[g].method,
                 ret |-> EndpointResult(goroutines[g].method, goroutines[g].arg,
                                        goroutines[g].opts, ParseError),
                 arg |-> goroutines[g].arg, opts |-> goroutines[g].opts,
                 outcome |-> ParseError]]
       ELSE \E h \in RequestHeaders(api.headers) :
                goroutines' = [goroutines EXCEPT ![g] =
                    [pc |-> "sent", method |-> goroutines[g].method, ret |-> <<>>,
                     arg |-> goroutines[g].arg, opts |-> goroutines[g].opts,
                     queryParams |-> goroutines[g].queryParams,
                     sent |-> Sent(api,
                                   [method |-> "GET",
                                    path |-> EndpointPath(goroutines[g].method),
                                    query |-> QueryParams(goroutines, g)], h)]]
    /\ UNCHANGED <<input, call, ret, requests, outcome, compiled, api, config, pending>>

\* client.Do of goroutine g returns; the body is decoded into the response
\* structure of the call and the method returns
ApiReceive(g) ==
    /\ goroutines[g].pc = "sent"
    /\ \E o \in ConcurrentOutcomes :
        goroutines' = [goroutines EXCEPT ![g] =
            [pc |-> "returned", method |-> goroutines[g].method,
             ret |-> EndpointResult(goroutines[g].method, goroutines[g].arg,
                                    goroutines[g].opts, o),
             arg |-> goroutines[g].arg, opts |-> goroutines[g].opts,
             sent |-> goroutines[g].sent, outcome |-> o]]
    /\ UNCHANGED <<input, call, ret, requests, outcome, compiled, api, config, pending>>

\* the API of setupAPI: v3.NewAPI(apiKey, v3.WithClient(http.DefaultClient),
\* v3.WithCustomHeader("x-temp-header", "temp"), v3.WithCustomBaseURL(apiURL))
SetupAPI ==
    SetBaseURL(SetHeader(SetClient(NewAPI("key"), DefaultClient), XTempHeader, "temp"),
               apiURL)

\* the API of setupAPI with goroutines calling its endpoint methods, as in
\* TestThreadSafety
InitConcurrentAPI ==
    /\ input = FilledCountSoap
    /\ call = "none"
    /\ ret = <<>>
    /\ requests = <<>>
    /\ outcome = NoOutcome
    /\ compiled = Compiled
    /\ goroutines = [g \in Goroutines |-> IdleGoroutine]
    /\ api = SetupAPI
    /\ config = <<[op |-> "SetClient", c |-> DefaultClient],
                  [op |-> "SetHeader", k |-> XTempHeader, v |-> "temp"],
                  [op |-> "SetBaseURL", u |-> apiURL]>>
    /\ pending = NoPending

NextConcurrentAPI ==
    \E g \in Goroutines : ApiBuild(g) \/ ApiSend(g) \/ ApiReceive(g) \/ GoAgain(g)

SpecConcurrentAPI == InitConcurrentAPI /\ [][NextConcurrentAPI]_vars

TypeOK ==
    /\ call \in {"none", "FindPossible3wa", "IsPossible3wa", "DidYouMean",
                 "IsValid3wa", "SetHeader", "MockAPI.Do"} \cup Endpoints
    /\ call \in {"IsPossible3wa", "DidYouMean"} => ret \in BOOLEAN
    /\ call = "IsValid3wa" => ret \in {Panicked, Returned(TRUE), Returned(FALSE)}
    /\ Len(requests) <= MaxRequests

(***************************************************************************)
(* Vocabulary of the properties.                                           *)
(***************************************************************************)
\* the positions of s that hold a character of the set C
PositionsIn(s, C) == {i \in 1..Len(s) : s[i] \in C}

\* s without its leading slashes
RECURSIVE StripSlashes(_)
StripSlashes(s) == IF s # <<>> /\ s[1] = 47 THEN StripSlashes(Tail(s)) ELSE s

\* a character that is a separator for some rule
AnySeparator == Separator \cup LooseSeparator

\* s is two non-empty words joined by one separator of WordSeparatorClass,
\* with or without one more separator at its end, and no separator elsewhere
IsTwoWords(s) ==
    \E i \in 2..(Len(s) - 1) :
        /\ s[i] \in Separator
        /\ \/ PositionsIn(s, Separator) = {i}
           \/ /\ PositionsIn(s, Separator) = {i, Len(s)}
              /\ i + 1 < Len(s)

\* C1: FindPossible3wa reports exactly "filled.count.soap" and
\* "test.fake.words", in that order, for the text of TestFindPossible3wa;
\* it reports nothing for a text that is only two words (with or without a
\* trailing separator); no reported substring begins with a slash.
C1_FindReportsThreeWordShapes ==
    call = "FindPossible3wa" =>
        /\ input = TestSource => ret = <<FilledCountSoap, TestFakeWords>>
        /\ IsTwoWords(input) => ret = <<>>
        /\ \A i \in DOMAIN ret : ret[i] # <<>> /\ ret[i][1] # 47

C1_Witness ==
    /\ call = "FindPossible3wa"
    /\ input = TestSource
    /\ Len(ret) = 2

\* C2: IsPossible3wa is true of "filled.count.soap" and of
\* "/filled.count.soap", false of "filled.count." and of
\* "filled.count.soap.extra".
C2_IsPossibleExamples ==
    call = "IsPossible3wa" =>
        /\ input = FilledCountSoap => ret = TRUE
        /\ input = <<47>> \o FilledCountSoap => ret = TRUE
        /\ input = FilledCountDot => ret = FALSE
        /\ input = FilledCountSoapExtra => ret = FALSE

C2_Witness ==
    /\ call = "IsPossible3wa"
    /\ input = FilledCountDot
    /\ ret = FALSE

\* C3: every substring returned by FindPossible3wa begins with no slash and
\* is itself accepted by IsPossible3wa.
C3_FoundIsPossible ==
    call = "FindPossible3wa" =>
        \A i \in DOMAIN ret : ret[i][1] # 47 /\ IsPossible3wa(ret[i])

\* t is exactly three non-empty words joined by exactly two separators of
\* WordSeparatorClass: two separator characters, none first, last or adjacent
IsThreeWords(t) ==
    \E i \in 2..(Len(t) - 3) : \E j \in (i + 2)..(Len(t) - 1) :
        PositionsIn(t, Separator) = {i, j}

\* C4: IsPossible3wa accepts a text only if, its leading slashes removed,
\* it is exactly three words joined by exactly two characters of
\* WordSeparatorClass, whichever characters of the class they are.
C4_AcceptedIsThreeWords ==
    (call = "IsPossible3wa" /\ ret = TRUE) => IsThreeWords(StripSlashes(input))

\* the pieces of s between the characters of C
RECURSIVE SplitAt(_, _)
SplitAt(s, C) ==
    IF PositionsIn(s, C) = {} THEN <<s>>
    ELSE LET i == CHOOSE k \in PositionsIn(s, C) : \A m \in PositionsIn(s, C) : k <= m
         IN  <<SubSeq(s, 1, i - 1)>> \o SplitAt(SubSeq(s, i + 1, Len(s)), C)

\* a non-empty run of word characters that are no separator of any rule and
\* no sub-token joiner
IsPlainWord(w) ==
    /\ w # <<>>
    /\ \A i \in DOMAIN w : w[i] \notin (WordExcluded \cup AnySeparator \cup SubTokenJoiner)

\* the numbers of additional sub-tokens of the three word positions of s,
\* or <<>> when s is not three positions of plain words
SubTokenCounts(s) ==
    LET pos == SplitAt(s, Separator)
        tok(i) == SplitAt(pos[i], SubTokenJoiner)
    IN  IF Len(pos) = 3 /\ \A i \in 1..3 : \A k \in DOMAIN tok(i) : IsPlainWord(tok(i)[k])
        THEN [i \in 1..3 |-> Len(tok(i)) - 1]
        ELSE <<>>

\* C5: IsPossible3wa accepts three word positions each holding one word and
\* 0 to 3 further sub-tokens joined by a space or a no-break space, the
\* number chosen independently per position ("new york.some place.here" is
\* accepted), and rejects a position with more than 3 further sub-tokens.
C5_MultiTokenAccepted ==
    (call = "IsPossible3wa" /\ SubTokenCounts(input) # <<>>) =>
        ret = (\A i \in 1..3 : SubTokenCounts(input)[i] <= 3)

\* the single-token shape WORD SEP WORD SEP WORD of IsPossible3wa
SingleTokenShape == <<Word, Sep, Word, Sep, Word>>

\* C6: the third word position of FindPossible3wa uses the word-character
\* set of the other positions and of IsPossible3wa, so that a text that is
\* one three-word shape is reported whole, whatever its third word holds.
C6_ThreeWordShapeReportedWhole ==
    (call = "FindPossible3wa" /\ MatchString(SingleTokenShape, input)) =>
        ret = <<input>>

\* C7: no separator character is a word character: the words of a reported
\* substring hold no character of WordSeparatorClass, so that a reported
\* substring holds exactly its two separators.
C7_WordsHoldNoSeparator ==
    call = "FindPossible3wa" =>
        \A i \in DOMAIN ret : Cardinality(PositionsIn(ret[i], Separator)) = 2

\* whitespace, the no-break space included
WhiteSpace == PerlSpace \cup {11, 160}

\* C8: whitespace, the no-break space included, is excluded from words: no
\* substring returned by FindPossible3wa holds a whitespace character, and
\* a text accepted by DidYouMean holds none but the ordinary space, which
\* is a loose separator.
C8_WordsHoldNoWhitespace ==
    /\ call = "FindPossible3wa" =>
           \A i \in DOMAIN ret : PositionsIn(ret[i], WhiteSpace) = {}
    /\ (call = "DidYouMean" /\ ret = TRUE) =>
           PositionsIn(input, WhiteSpace \ {32}) = {}

\* C9: IsPossible3wa of a text is IsPossible3wa of the text without its
\* leading slashes, however many they are, and an accepted text holds no
\* slash after them.
C9_LeadingSlashesIgnored ==
    call = "IsPossible3wa" =>
        /\ ret = IsPossible3wa(StripSlashes(input))
        /\ ret = TRUE => PositionsIn(StripSlashes(input), Slash) = {}

C9_Witness ==
    /\ call = "IsPossible3wa"
    /\ Len(input) > 2 /\ input[1] = 47 /\ input[2] = 47
    /\ ret = TRUE

\* s is three plain words joined by two single loose separators that are
\* not strict separators
IsLooselyJoined(s) ==
    \E i \in 2..(Len(s) - 3) : \E j \in (i + 2)..(Len(s) - 1) :
        /\ PositionsIn(s, AnySeparator) = {i, j}
        /\ s[i] \notin Separator /\ s[j] \notin Separator
        /\ \A k \in (1..Len(s)) \ {i, j} : s[k] \notin (WordExcluded \cup SubTokenJoiner)

\* C10: DidYouMean accepts and IsPossible3wa rejects "filled-count-fake",
\* and every text that is three words joined by two single loose separators
\* that are not strict ones (hyphen, comma, slash, colon, ampersand, pipe,
\* ideographic space, ...).
C10_LooseAcceptedStrictRejected ==
    (input = FilledCountFakeHyphens \/ IsLooselyJoined(input)) =>
        /\ call = "DidYouMean" => ret = TRUE
        /\ call = "IsPossible3wa" => ret = FALSE

C10_Witness ==
    /\ call = "DidYouMean"
    /\ input = FilledCountFakeHyphens
    /\ ret = TRUE

\* s without one leading slash
StripOneSlash(s) == IF s # <<>> /\ s[1] = 47 THEN Tail(s) ELSE s

\* t is three non-empty words with, between them, two runs of 1 or 2
\* characters of LooseSeparatorClass: it neither begins nor ends with a loose
\* separator, holds exactly three words, no run of three loose separators,
\* and its other characters are word characters
IsLooseThreeWords(t) ==
    LET pieces == SplitAt(t, LooseSeparator)
    IN  /\ pieces[1] # <<>>
        /\ pieces[Len(pieces)] # <<>>
        /\ Cardinality({i \in DOMAIN pieces : pieces[i] # <<>>}) = 3
        /\ \A i \in 1..(Len(pieces) - 1) : pieces[i] # <<>> \/ pieces[i + 1] # <<>>
        /\ \A i \in DOMAIN pieces : \A k \in DOMAIN pieces[i] :
               pieces[i][k] \notin WordExcluded

\* C11: DidYouMean accepts a text exactly when, one optional leading slash
\* apart, it is three words whose two separator runs are each 1 or 2
\* characters of LooseSeparatorClass; a run of 3 or more, a character outside
\* the class between the words, or text before the first or after the third
\* word makes it reject.
C11_LooseRunsOfOneOrTwo ==
    call = "DidYouMean" => ret = IsLooseThreeWords(StripOneSlash(input))

\* C12: DidYouMean of a slash followed by a text that begins with no slash
\* is DidYouMean of that text.
C12_OneLeadingSlashTolerated ==
    (call = "DidYouMean" /\ input # <<>> /\ input[1] = 47
        /\ (Len(input) = 1 \/ input[2] # 47)) =>
        ret = DidYouMean(Tail(input))

C12_Witness ==
    /\ call = "DidYouMean"
    /\ Len(input) > 1 /\ input[1] = 47 /\ input[2] # 47
    /\ ret = TRUE

\* no match of regexFind3wa begins at position q of s
NoMatchAt(s, q) == RunSeq(s, {q}, regexFind3wa) = {}

\* rs are matches found scanning s from position from: each begins at the
\* first position, at or after the end of the one before, where a match
\* begins, is the text of a match there, and no match is left after the last
RECURSIVE InScanOrder(_, _, _)
InScanOrder(s, from, rs) ==
    IF rs = <<>> THEN \A q \in from..Len(s) : NoMatchAt(s, q)
    ELSE \E p \in from..Len(s) :
            /\ \A q \in from..(p - 1) : NoMatchAt(s, q)
            /\ rs[1] # <<>>
            /\ p + Len(rs[1]) - 1 <= Len(s)
            /\ SubSeq(s, p, p + Len(rs[1]) - 1) = rs[1]
            /\ (p + Len(rs[1])) \in RunSeq(s, {p}, regexFind3wa)
            /\ InScanOrder(s, p + Len(rs[1]), Tail(rs))

\* C13: FindPossible3wa returns substrings of the input in left-to-right
\* order of occurrence, pairwise non-overlapping, each beginning at the
\* leftmost position at or after the end of the previous one where a match
\* begins.
C13_MatchesInOrderNoOverlap ==
    call = "FindPossible3wa" => InScanOrder(input, 1, ret)

C13_Witness ==
    /\ call = "FindPossible3wa"
    /\ Len(ret) >= 2
    /\ ret[1] # ret[2]

\* C14: for a text with no character of WordSeparatorClass, FindPossible3wa
\* returns nothing and IsPossible3wa is false.
C14_NoSeparatorNoMatch ==
    PositionsIn(input, Separator) = {} =>
        /\ call = "FindPossible3wa" => ret = <<>>
        /\ call = "IsPossible3wa" => ret = FALSE

C14_Witness ==
    /\ call = "IsPossible3wa"
    /\ input = FilledCountFakeHyphens
    /\ ret = FALSE

\* C15: for the empty text and for every text of one character,
\* FindPossible3wa returns nothing and IsPossible3wa and DidYouMean are
\* false.
C15_EmptyAndSingleCharacter ==
    Len(input) <= 1 =>
        /\ call = "FindPossible3wa" => ret = <<>>
        /\ call = "IsPossible3wa" => ret = FALSE
        /\ call = "DidYouMean" => ret = FALSE

C15_Witness ==
    /\ call = "DidYouMean"
    /\ Len(input) = 1
    /\ ret = FALSE


(***************************************************************************)
(* The matchers under concurrent and repeated calls.                       *)
(***************************************************************************)
\* what the method of that name gives for the text s
PureResult(method, s) ==
    IF method = "FindPossible3wa" THEN FindPossible3wa(s)
    ELSE IF method = "IsPossible3wa" THEN IsPossible3wa(s)
    ELSE DidYouMean(s)

\* C16: FindPossible3wa, IsPossible3wa and DidYouMean are pure: whatever the
\* goroutines have done so far, the package variables hold the patterns they
\* were initialised with, every call that has returned returned what the
\* method gives for the text alone, and two goroutines that have returned
\* from the same method on the text hold the same result.
C16_MatchersArePure ==
    /\ compiled = Compiled
    /\ \A g \in Goroutines :
          goroutines[g].pc = "returned"
              => goroutines[g].ret = PureResult(goroutines[g].method, input)
    /\ \A g, h \in Goroutines :
          (/\ goroutines[g].pc = "returned"
           /\ goroutines[h].pc = "returned"
           /\ goroutines[g].method = goroutines[h].method)
              => goroutines[g].ret = goroutines[h].ret

\* two goroutines have returned from IsPossible3wa("filled.count.soap")
\* while both were in it at the same time or one after the other
C16_Witness ==
    /\ input = FilledCountSoap
    /\ \A g \in {1, 2} :
          /\ goroutines[g].pc = "returned"
          /\ goroutines[g].method = "IsPossible3wa"
          /\ goroutines[g].ret = TRUE

(***************************************************************************)
(* IsValid3wa and the remote call.                                         *)
(***************************************************************************)
\* the AutoSuggest call succeeded and its first suggestion has the words s
TopSuggestionIs(o, s) ==
    /\ o.kind = "response"
    /\ o.status = 200
    /\ o.body.json = "object"
    /\ Len(o.body.Suggestions) >= 1
    /\ o.body.Suggestions[1].Words = s

\* C17: when IsPossible3wa(input) holds and the AutoSuggest call succeeds
\* with a first suggestion whose words equal input exactly, IsValid3wa
\* returns true.
C17_RealAddressIsValid ==
    (/\ call = "IsValid3wa"
     /\ IsPossible3wa(input)
     /\ TopSuggestionIs(outcome, input))
        => ret = Returned(TRUE)

\* C18: IsValid3wa returns true only if IsPossible3wa(input) holds and the
\* top suggestion returned by AutoSuggest has words equal to input exactly;
\* in every other case it returns false.
C18_OtherwiseFalse ==
    (/\ call = "IsValid3wa"
     /\ ~(IsPossible3wa(input) /\ TopSuggestionIs(outcome, input)))
        => ret = Returned(FALSE)

\* the last request sent
LastRequest(rs) == rs[Len(rs)]

\* C19: a step that calls IsValid3wa sends no request when
\* IsPossible3wa(input) is false and exactly one AutoSuggest request, with
\* n-results = 1 and the unmodified input, when it is true; a step that
\* calls FindPossible3wa, IsPossible3wa or DidYouMean sends no request.
C19_NetworkOnlyAfterLocalMatch ==
    [][/\ (call = "none" /\ call' \in {"FindPossible3wa", "IsPossible3wa", "DidYouMean"})
            => requests' = requests
       /\ (pending = NoPending /\ pending'.method = "IsValid3wa")
            => /\ IsPossible3wa(input)
               /\ Len(requests') = Len(requests) + 1
               /\ SubSeq(requests', 1, Len(requests)) = requests
               /\ LastRequest(requests').method = "GET"
               /\ LastRequest(requests').path = EndpointPath("AutoSuggest")
               /\ DOMAIN LastRequest(requests').query = {"input", "n-results"}
               /\ LastRequest(requests').query["input"] = input
               /\ LastRequest(requests').query["n-results"] = "1"
       /\ (call = "none" /\ call' = "IsValid3wa")
            => /\ requests' = requests
               /\ IsPossible3wa(input) <=> pending.method = "IsValid3wa"]_vars

\* IsValid3wa("filled.count.soap") has sent its one request
C19_Witness ==
    /\ call = "IsValid3wa"
    /\ input = FilledCountSoap
    /\ IsPossible3wa(input)
    /\ Len(requests) = 1
    /\ requests[1].query["input"] = input
    /\ requests[1].query["n-results"] = "1"

\* C20: when the remote service answers with a status other than 200, the
\* endpoint method returns a nil response together with an error that is a
\* non-nil *ErrorResponse carrying the code and message of the error object
\* of the response body.
C20_StatusErrorIsErrorResponse ==
    (/\ call = "AutoSuggest"
     /\ outcome.kind = "response"
     /\ outcome.status # 200)
        => /\ ret.resp = NilPtr
           /\ ret.err.type = "*ErrorResponse"
           /\ ret.err.ptr # NilPtr
           /\ outcome.body.json = "object"
           /\ ret.err.ptr = outcome.body.Error


\* the AutoSuggest call returns an error for what the network answered
AutoSuggestFails(o) ==
    \/ o.kind \in {"do error", "read error"}
    \/ /\ o.kind = "response"
       /\ (o.body = Undecodable \/ o.status # 200)

\* C25: IsValid3wa returns false, without any fault, whenever the
\* AutoSuggest call it makes returns an error (transport failure or
\* cancelled context, unreadable or undecodable body, status other than
\* 200).
C25_FailedCallGivesFalse ==
    (/\ call = "IsValid3wa"
     /\ requests # <<>>
     /\ AutoSuggestFails(outcome))
        => (~ret.panic /\ ret.value = FALSE)

\* the step sends a request
SendsRequest == Len(requests') = Len(requests) + 1

\* the request the step sends
SentRequest == requests'[Len(requests')]

\* C21: for a Service built with WithCustomHeader(k, v) among its options,
\* in whatever position and with whatever other options, every request sent
\* by an endpoint method includes the header k with the value v.
C21_CustomHeaderOnEveryRequest ==
    [][SendsRequest =>
        \A i \in 1..Len(config) :
            config[i].op = "SetHeader"
                => HeaderGet(SentRequest.header, config[i].k) = config[i].v]_vars

\* an option or setter named op has been applied
ConfiguredWith(op) == \E i \in 1..Len(config) : config[i].op = op

\* the last application of the option or setter named op
LastOf(op) ==
    config[CHOOSE i \in 1..Len(config) :
                /\ config[i].op = op
                /\ \A j \in (i + 1)..Len(config) : config[j].op # op]

\* the custom client the Service is configured with
ConfiguredClient ==
    IF ConfiguredWith("SetClient") THEN LastOf("SetClient").c ELSE "MockAPI"

\* the Service is configured with a custom client and a custom base URL, and
\* its API was not replaced as a whole
CustomClientAndBaseURL ==
    /\ ConfiguredWith("SetBaseURL")
    /\ ~ConfiguredWith("WithV3API")

\* the segments of the text u + "/v3/" + path after the origin of u
ConcatenatedPath(u, path) == u.path \o <<V3Segment, path>>

\* C22 as stated: with a custom client c and a custom base URL u, every
\* request of every endpoint method is a GET sent through c, never through
\* http.DefaultClient, to the address u + "/v3/" + endpoint path.
C22_RequestToConcatenatedAddress ==
    [][(SendsRequest /\ CustomClientAndBaseURL) =>
        /\ SentRequest.method = "GET"
        /\ SentRequest.client = ConfiguredClient
        /\ SentRequest.client # DefaultClient
        /\ SentRequest.url.origin = LastOf("SetBaseURL").u.origin
        /\ SentRequest.url.path =
                ConcatenatedPath(LastOf("SetBaseURL").u, SentRequest.path)]_vars

\* C22, amended: with a custom client c and a custom base URL u, every
\* request of every endpoint method is a GET sent through c, never through
\* http.DefaultClient, to the origin of u and the cleaned form of the path
\* of u + "/v3/" + endpoint path: empty and "." segments are dropped and
\* ".." segments resolved, so a base URL with a trailing slash gives the
\* same address as the one without.
C22_RequestToCleanedAddress ==
    [][(SendsRequest /\ CustomClientAndBaseURL) =>
        /\ SentRequest.method = "GET"
        /\ SentRequest.client = ConfiguredClient
        /\ SentRequest.client # DefaultClient
        /\ SentRequest.url.origin = LastOf("SetBaseURL").u.origin
        /\ SentRequest.url.path =
                Clean(<<>>, ConcatenatedPath(LastOf("SetBaseURL").u, SentRequest.path))]_vars

\* a request was sent through the custom client to a base URL with a
\* trailing slash, and its address has no empty segment
C22_Witness ==
    /\ Len(requests) = 1
    /\ CustomClientAndBaseURL
    /\ ConfiguredWith("SetClient")
    /\ LastOf("SetBaseURL").u.path = <<<<>>>>
    /\ requests[1].client = ConfiguredClient
    /\ requests[1].url.origin = LastOf("SetBaseURL").u.origin
    /\ requests[1].url.path = <<V3Segment, requests[1].path>>

\* the methods whose format the method fixes
FormatMethods == Endpoints \ {"AutoSuggest", "AvailableLanguages"}

\* the query texts of the arguments method m is called on
SubjectValues(m) ==
    IF m \in {"ConvertTo3wa", "ConvertTo3waGeoJson"}
        THEN {AsQueryParam(c) : c \in SomeCoordinates}
    ELSE IF m \in {"ConvertToCoordinates", "ConvertToCoordinatesGeoJson"} THEN SomeWords
    ELSE {BoundingBoxQueryParam(bb) : bb \in SomeBoundingBoxes}

\* the query parameter that names the subject of method m
SubjectOf(m) ==
    IF m \in {"ConvertTo3wa", "ConvertTo3waGeoJson"} THEN "coordinates"
    ELSE IF m \in {"ConvertToCoordinates", "ConvertToCoordinatesGeoJson"} THEN "words"
    ELSE "bounding-box"

JsonMethods == {"ConvertTo3wa", "ConvertToCoordinates", "GridSection"}

\* C23: the response format is fixed by the method and not by the options:
\* ConvertTo3wa, ConvertToCoordinates and GridSection always send
\* format=json and return the json-shaped response, their GeoJson
\* counterparts always send format=geojson and return the geojson-shaped
\* response, and no value of opts changes the format, coordinates, words or
\* bounding-box query parameter.
C23_FormatFixedByMethod ==
    (/\ call \in FormatMethods
     /\ outcome # ParseError)
        => LET sent == requests[Len(requests)]
           IN  /\ sent.query["format"] = (IF call \in JsonMethods THEN "json" ELSE "geojson")
               /\ sent.query[SubjectOf(call)] \in SubjectValues(call)
               /\ DOMAIN sent.query \subseteq {SubjectOf(call), "format", "locale", "language"}
               /\ ret.err = NilError =>
                       ret.resp = (IF call \in JsonMethods
                                   THEN DecodeEmbedded(outcome.body).Json
                                   ELSE DecodeEmbedded(outcome.body).GeoJson)

\* ConvertTo3wa was called with a language option: the request carries the
\* language and format=json, and the json-shaped response came back
C23_Witness ==
    /\ call = "ConvertTo3wa"
    /\ requests # <<>>
    /\ "language" \in DOMAIN requests[Len(requests)].query
    /\ requests[Len(requests)].query["format"] = "json"
    /\ ret.err = NilError
    /\ ret.resp # NilPtr
    /\ ret.resp = DecodeEmbedded(outcome.body).Json

\* C24: endpoint calls are thread safe: concurrent endpoint calls on one API
\* value each complete with their own result, none of them writes the API's
\* shared baseURL, headers map or client, and no call observes another
\* call's query parameters or response.
C24_EndpointCallsThreadSafe ==
    /\ api = SetupAPI
    /\ \A g \in Goroutines :
          (\/ goroutines[g].pc = "sent"
           \/ goroutines[g].pc = "returned" /\ goroutines[g].outcome # ParseError)
              => /\ goroutines[g].sent.query =
                        EndpointRequest(goroutines[g].method, goroutines[g].arg,
                                        goroutines[g].opts).query
                 /\ goroutines[g].sent.client = api.client
                 /\ goroutines[g].sent.url = JoinPath(api.baseURL, goroutines[g].sent.path)
    /\ \A g \in Goroutines :
          goroutines[g].pc = "returned"
              => goroutines[g].ret =
                    EndpointResult(goroutines[g].method, goroutines[g].arg,
                                   goroutines[g].opts, goroutines[g].outcome)

\* one goroutine has returned from ConvertToCoordinates with its response
\* while the request of another, with other query parameters, is in flight
C24_Witness ==
    /\ goroutines[1].pc = "sent"
    /\ goroutines[2].pc = "returned"
    /\ goroutines[2].method = "ConvertToCoordinates"
    /\ goroutines[2].ret.err = NilError
    /\ goroutines[2].ret.resp # NilPtr
    /\ goroutines[1].sent.query # goroutines[2].sent.query

\* the API is that of NewAPI(key, options...) with setters called on it: it
\* was not replaced as a whole
OnlySetters == ~ConfiguredWith("WithV3API")

\* C26: in every state reachable by NewAPI(key, options...) followed by any
\* sequence of SetBaseURL, SetHeader, SetHeaderMap and SetClient calls,
\* each request sent by an endpoint method carries the header x-api-key
\* with the value key and the header x-w3w-wrapper with the wrapper
\* identification.
C26_BuiltInHeadersOnEveryRequest ==
    [][(SendsRequest /\ OnlySetters) =>
        /\ HeaderGet(SentRequest.header, HEADER_API_KEY) = "key"
        /\ HeaderGet(SentRequest.header, HEADER_WRAPPER) = ResolveWrapperHeader]_vars

\* C27: every endpoint method returns exactly one of a non-nil response and
\* a non-nil error: (response, nil) when the service answers 200 with a body
\* that decodes, whatever that body contains, and (nil, error) otherwise; no
\* endpoint method ever returns (nil, nil).
C27_ExactlyOneOfResponseAndError ==
    call \in Endpoints =>
        /\ (ret.resp = NilPtr) # (ret.err = NilError)
        /\ (ret.err = NilError) <=>
                (/\ outcome.kind = "response"
                 /\ outcome.status = 200
                 /\ outcome.body # Undecodable)

\* C28: SetHeader(k, v), and the Service option WithCustomHeader that calls
\* it, completes without fault in every reachable configuration state, and
\* afterwards the headers sent are the previous ones with k set to v; this
\* holds in particular after SetHeaderMap(m) for every map m a caller may
\* pass, including an empty map and a nil map.
C28_SetHeaderNeverFaults ==
    [][(Len(config') = Len(config) + 1 /\ config'[Len(config')].op = "SetHeader") =>
        LET k == config'[Len(config')].k
            v == config'[Len(config')].v
        IN  /\ call' # "SetHeader"
            /\ api'.headers = MapSet(api.headers, k, v)]_vars

====
